---- MODULE Spec2Model ----
(***************************************************************************)
(* Authentication slice of the ai-cal-track backend: AuthService           *)
(* (register, authenticate, tokens, refresh, change password, deactivate), *)
(* the JWT helpers of core/security.py, the request authenticator of       *)
(* api/deps.py and the routes of api/auth.py.                              *)
(*                                                                         *)
(* Time is counted in minutes.  An optional value (Python None or a value) *)
(* is a sequence of length 0 or 1.                                         *)
(***************************************************************************)
EXTENDS Integers, Sequences, FiniteSets, TLC

VARIABLES users, profiles, goals, now, held, resp, calls, storeUp

vars == <<users, profiles, goals, now, held, resp, calls, storeUp>>

(***************************************************************************)
(* Bounds of the model.                                                    *)
(***************************************************************************)
\* rows the users table may hold
MaxUsers == 1
\* failed_login_attempts is not counted beyond this value
MaxAttempts == 6
\* token pairs the client keeps for later presentation
MaxHeld == 1
\* latest clock reading from which the deadline offsets are counted
MaxStart == 0
\* requests the server handles at the same time
MaxWorkers == 2
\* rows the users table may hold while requests run concurrently
MaxRaceUsers == 2

(***************************************************************************)
(* Program constants.                                                      *)
(***************************************************************************)
LOCK_THRESHOLD == 5
LOCK_MINUTES == 15
ACCESS_TOKEN_EXPIRE_MINUTES == 30
REFRESH_TOKEN_EXPIRE_DAYS == 7
SECRET_KEY == "your-super-secret-key-change-in-production"

None == <<>>
Some(v) == <<v>>

\* timedelta(minutes=m) and timedelta(days=d), in minutes
Minutes(m) == m
Days(d) == d * 24 * 60

(***************************************************************************)
(* Inputs.                                                                 *)
(***************************************************************************)
Emails == {"real@x.com", "nobody@x.com"}

PwStrong == <<"S", "t", "r", "0", "n", "g", "!", "p">>
PwOther == <<"N", "3", "w", "#", "p", "a", "s", "s">>
PwNoSymbol == <<"W", "e", "a", "k", "1", "p", "w", "d">>
PwShort == <<"W", "e", "a", "k", "1">>
\* passwords offered at login and as the current password
Passwords == {PwStrong, PwOther, PwNoSymbol}
\* passwords offered at registration and as the new password
NewPasswords == Passwords \cup {PwShort}

\* the clock readings the model visits: each start instant and the instants
\* just before, at and just after the deadlines counted from it
Offsets ==
  {0, Minutes(LOCK_MINUTES) - 1, Minutes(LOCK_MINUTES),
   Minutes(ACCESS_TOKEN_EXPIRE_MINUTES), Minutes(ACCESS_TOKEN_EXPIRE_MINUTES) + 1,
   Days(REFRESH_TOKEN_EXPIRE_DAYS), Days(REFRESH_TOKEN_EXPIRE_DAYS) + 1}
TimePoints == {s + d : s \in 0..MaxStart, d \in Offsets}

(***************************************************************************)
(* core/security.py: password hashing.                                     *)
(***************************************************************************)
get_password_hash(password) == [scheme |-> "bcrypt", of |-> password]

verify_password(plain_password, hashed_password) ==
  /\ hashed_password.scheme = "bcrypt"
  /\ hashed_password.of = plain_password

UpperChars == {"S", "N", "W"}
LowerChars == {"t", "r", "n", "g", "p", "w", "a", "s", "e", "k", "d"}
DigitChars == {"0", "1", "3"}
special_chars ==
  {"!", "@", "#", "$", "%", "^", "&", "*", "(", ")", "_", "+", "-", "=", "[", "]",
   "{", "}", "|", ";", ":", ",", ".", "<", ">", "?"}

AnyChar(password, class) == \E i \in 1..Len(password) : password[i] \in class

\* faulty variant: the special character is not required
validate_password_strength_NoSymbolCheck(password) ==
  IF Len(password) < 8
    THEN <<FALSE, "Password must be at least 8 characters long">>
  ELSE IF ~AnyChar(password, UpperChars)
    THEN <<FALSE, "Password must contain at least one uppercase letter">>
  ELSE IF ~AnyChar(password, LowerChars)
    THEN <<FALSE, "Password must contain at least one lowercase letter">>
  ELSE IF ~AnyChar(password, DigitChars)
    THEN <<FALSE, "Password must contain at least one digit">>
  ELSE <<TRUE, "Password is strong">>

\* (is_valid, message)
validate_password_strength(password) ==
  IF Len(password) < 8
    THEN <<FALSE, "Password must be at least 8 characters long">>
  ELSE IF ~AnyChar(password, UpperChars)
    THEN <<FALSE, "Password must contain at least one uppercase letter">>
  ELSE IF ~AnyChar(password, LowerChars)
    THEN <<FALSE, "Password must contain at least one lowercase letter">>
  ELSE IF ~AnyChar(password, DigitChars)
    THEN <<FALSE, "Password must contain at least one digit">>
  ELSE IF ~AnyChar(password, special_chars)
    THEN <<FALSE, "Password must contain at least one special character">>
  ELSE <<TRUE, "Password is strong">>

(***************************************************************************)
(* core/security.py: JWT creation and verification.                        *)
(***************************************************************************)
\* str(subject) and int(user_id)
ToStr(n) == [digits |-> n]
ToInt(s) == s.digits

\* jwt.encode: the payload and its HS256 signature under the key
Sign(payload, key) == <<"HS256", key, payload>>
Encode(payload, key) == [payload |-> Some(payload), sig |-> Sign(payload, key)]

\* faulty variant: the access token gets the lifetime of the refresh token
create_access_token_RefreshLifetime(subject, t) ==
  Encode([sub |-> ToStr(subject),
          exp |-> t + Days(REFRESH_TOKEN_EXPIRE_DAYS),
          type |-> "access",
          iat |-> t], SECRET_KEY)

create_access_token(subject, t) ==
  Encode([sub |-> ToStr(subject),
          exp |-> t + Minutes(ACCESS_TOKEN_EXPIRE_MINUTES),
          type |-> "access",
          iat |-> t], SECRET_KEY)

create_refresh_token(subject, t) ==
  Encode([sub |-> ToStr(subject),
          exp |-> t + Days(REFRESH_TOKEN_EXPIRE_DAYS),
          type |-> "refresh",
          iat |-> t], SECRET_KEY)

\* jwt.decode raises on a malformed token, a signature that does not verify
\* under SECRET_KEY, and an exp earlier than the current time
JwtExpired(payload, t) == payload.exp < t

decode_token(token, t) ==
  IF token.payload = None THEN None
  ELSE IF token.sig # Sign(token.payload[1], SECRET_KEY) THEN None
  ELSE IF JwtExpired(token.payload[1], t) THEN None
  ELSE token.payload

\* faulty variant: the type claim is not compared
verify_token_NoTypeCheck(token, token_type, t) ==
  LET payload == decode_token(token, t) IN
  IF payload = None THEN None ELSE Some(payload[1].sub)

\* the subject, or None
verify_token(token, token_type, t) ==
  LET payload == decode_token(token, t) IN
  IF payload = None THEN None
  ELSE IF payload[1].type # token_type THEN None
  ELSE Some(payload[1].sub)

(***************************************************************************)
(* services/auth_service.py: AuthService.                                  *)
(***************************************************************************)
\* db.query(User).filter(User.email == email).first(): a row id, or None
QueryByEmail(us, email) ==
  LET hit == {i \in DOMAIN us : us[i].email = email} IN
  IF hit = {} THEN None ELSE Some(CHOOSE i \in hit : \A j \in hit : i <= j)

\* db.query(User).filter(User.id == id).first()
QueryById(us, id) == IF id \in DOMAIN us THEN Some(id) ELSE None

\* faulty variant: the lock still holds at the very moment locked_until
IsLocked_Inclusive(user, t) == user.locked_until # None /\ user.locked_until[1] >= t

IsLocked(user, t) == user.locked_until # None /\ user.locked_until[1] > t

\* faulty variant: every failed attempt locks the identity
RecordFailure_LocksEachFailure(user, t) ==
  [user EXCEPT !.failed_login_attempts = @ + 1,
               !.locked_until = Some(t + Minutes(LOCK_MINUTES))]

\* faulty variant: a failure after a lapsed lock starts a fresh count
RecordFailure_FreshAfterLapse(user, t) ==
  IF user.locked_until # None /\ user.locked_until[1] <= t
    THEN [user EXCEPT !.failed_login_attempts = 1, !.locked_until = None]
  ELSE LET n == user.failed_login_attempts + 1 IN
       [user EXCEPT !.failed_login_attempts = n,
                    !.locked_until = IF n >= LOCK_THRESHOLD
                                       THEN Some(t + Minutes(LOCK_MINUTES))
                                       ELSE @]

\* faulty variant: the lock ends at the moment it is set
RecordFailure_LockUntilNow(user, t) ==
  LET n == user.failed_login_attempts + 1 IN
  [user EXCEPT !.failed_login_attempts = n,
               !.locked_until = IF n >= LOCK_THRESHOLD THEN Some(t) ELSE @]

\* faulty variant: the lock is set one failure late
RecordFailure_LockAfterSix(user, t) ==
  LET n == user.failed_login_attempts + 1 IN
  [user EXCEPT !.failed_login_attempts = n,
               !.locked_until = IF n > LOCK_THRESHOLD
                                  THEN Some(t + Minutes(LOCK_MINUTES))
                                  ELSE @]

\* faulty variant: the lock is set one failure early
RecordFailure_LockAtFour(user, t) ==
  [user EXCEPT !.failed_login_attempts = @ + 1,
               !.locked_until = IF user.failed_login_attempts + 2 >= LOCK_THRESHOLD
                                  THEN Some(t + Minutes(LOCK_MINUTES))
                                  ELSE @]

\* the row after a failed password verification
RecordFailure(user, t) ==
  LET n == user.failed_login_attempts + 1 IN
  [user EXCEPT !.failed_login_attempts = n,
               !.locked_until = IF n >= LOCK_THRESHOLD
                                  THEN Some(t + Minutes(LOCK_MINUTES))
                                  ELSE @]

\* faulty variant: a successful login leaves a lapsed lock stored
RecordSuccess_KeepsLock(user, t) ==
  [user EXCEPT !.failed_login_attempts = 0,
               !.last_login = Some(t)]

\* the row after a successful login
RecordSuccess(user, t) ==
  [user EXCEPT !.failed_login_attempts = 0,
               !.locked_until = None,
               !.last_login = Some(t)]

\* faulty variant: the session writes through, what was pending stays when
\* the commit raises
Commit_WritesThrough(us, pending, commitOk) == pending

\* db.commit(): the pending rows become the committed ones, or the commit
\* raises and the committed rows stay
Commit(us, pending, commitOk) == IF commitOk THEN pending ELSE us

\* faulty variant: the lookup failure has a message of its own
AuthNotFound_UserNotFound(us) ==
  [users |-> us, user |-> None, raised |-> FALSE, error |-> Some("User not found")]

\* faulty variant: the failure that sets the lock is reported as a locked account
AuthWrongPassword_LockedMessage(us, id, t, commitOk) ==
  [users |-> Commit(us, [us EXCEPT ![id] = RecordFailure(us[id], t)], commitOk),
   user |-> None, raised |-> ~commitOk,
   error |-> IF IsLocked(RecordFailure(us[id], t), t)
               THEN Some("Account is temporarily locked. Please try again later.")
               ELSE Some("Invalid email or password")]

\* The branches of authenticate_user.  Each yields [users, user, error,
\* raised]: the committed rows afterwards, the returned (user, error_message),
\* and whether the call raised instead of returning.
AuthNotFound(us) ==
  [users |-> us, user |-> None, raised |-> FALSE,
   error |-> Some("Invalid email or password")]

AuthLocked(us) ==
  [users |-> us, user |-> None, raised |-> FALSE,
   error |-> Some("Account is temporarily locked. Please try again later.")]

AuthInactive(us) ==
  [users |-> us, user |-> None, raised |-> FALSE,
   error |-> Some("Account is deactivated")]

AuthWrongPassword(us, id, t, commitOk) ==
  [users |-> Commit(us, [us EXCEPT ![id] = RecordFailure(us[id], t)], commitOk),
   user |-> None, raised |-> ~commitOk,
   error |-> Some("Invalid email or password")]

AuthSuccess(us, id, t, commitOk) ==
  [users |-> Commit(us, [us EXCEPT ![id] = RecordSuccess(us[id], t)], commitOk),
   user |-> Some(id), raised |-> ~commitOk, error |-> None]

\* faulty variant: an attempt during a lock is counted and extends the lock
authenticate_user_LockedCounts(us, t, email, password, commitOk) ==
  LET found == QueryByEmail(us, email) IN
  IF found = None THEN AuthNotFound(us)
  ELSE IF IsLocked(us[found[1]], t)
    THEN [AuthWrongPassword(us, found[1], t, commitOk) EXCEPT
            !.error = Some("Account is temporarily locked. Please try again later.")]
  ELSE IF ~us[found[1]].is_active THEN AuthInactive(us)
  ELSE IF ~verify_password(password, us[found[1]].hashed_password)
    THEN AuthWrongPassword(us, found[1], t, commitOk)
  ELSE AuthSuccess(us, found[1], t, commitOk)

\* faulty variant: the active check comes before the lock check
authenticate_user_ActiveFirst(us, t, email, password, commitOk) ==
  LET found == QueryByEmail(us, email) IN
  IF found = None THEN AuthNotFound(us)
  ELSE IF ~us[found[1]].is_active THEN AuthInactive(us)
  ELSE IF IsLocked(us[found[1]], t) THEN AuthLocked(us)
  ELSE IF ~verify_password(password, us[found[1]].hashed_password)
    THEN AuthWrongPassword(us, found[1], t, commitOk)
  ELSE AuthSuccess(us, found[1], t, commitOk)

authenticate_user(us, t, email, password, commitOk) ==
  LET found == QueryByEmail(us, email) IN
  IF found = None THEN AuthNotFound(us)
  ELSE IF IsLocked(us[found[1]], t) THEN AuthLocked(us)
  ELSE IF ~us[found[1]].is_active THEN AuthInactive(us)
  ELSE IF ~verify_password(password, us[found[1]].hashed_password)
    THEN AuthWrongPassword(us, found[1], t, commitOk)
  ELSE AuthSuccess(us, found[1], t, commitOk)

\* faulty variant: expires_in is given in minutes
create_tokens_ExpiresInMinutes(user_id, t) ==
  [access_token |-> create_access_token(user_id, t),
   refresh_token |-> create_refresh_token(user_id, t),
   token_type |-> "bearer",
   expires_in |-> ACCESS_TOKEN_EXPIRE_MINUTES]

\* TokenResponse
create_tokens(user_id, t) ==
  [access_token |-> create_access_token(user_id, t),
   refresh_token |-> create_refresh_token(user_id, t),
   token_type |-> "bearer",
   expires_in |-> ACCESS_TOKEN_EXPIRE_MINUTES * 60]

\* faulty variant: the identity is looked up but its active flag is not read
refresh_access_token_NoActiveCheck(us, t, refresh_token) ==
  LET user_id == verify_token(refresh_token, "refresh", t) IN
  IF user_id = None THEN None
  ELSE LET user == QueryById(us, ToInt(user_id[1])) IN
  IF user = None THEN None
  ELSE Some(create_tokens(ToInt(user_id[1]), t))

\* faulty variant: a login revokes the refresh tokens issued before it
refresh_access_token_RevokedByLogin(us, t, refresh_token) ==
  LET user_id == verify_token(refresh_token, "refresh", t) IN
  IF user_id = None THEN None
  ELSE LET user == QueryById(us, ToInt(user_id[1])) IN
  IF user = None \/ ~us[user[1]].is_active THEN None
  ELSE IF /\ us[user[1]].last_login # None
          /\ refresh_token.payload[1].iat < us[user[1]].last_login[1] THEN None
  ELSE Some(create_tokens(ToInt(user_id[1]), t))

\* a TokenResponse, or None
refresh_access_token(us, t, refresh_token) ==
  LET user_id == verify_token(refresh_token, "refresh", t) IN
  IF user_id = None THEN None
  ELSE LET user == QueryById(us, ToInt(user_id[1])) IN
  IF user = None \/ ~us[user[1]].is_active THEN None
  ELSE Some(create_tokens(ToInt(user_id[1]), t))

NewUser(email, password) ==
  [email |-> email,
   hashed_password |-> get_password_hash(password),
   is_active |-> TRUE,
   failed_login_attempts |-> 0,
   locked_until |-> None,
   last_login |-> None]

\* faulty variant: users.email has no unique index
UniqueViolation_NoIndex(us, email) == FALSE

\* the unique index on users.email refuses a row whose email is already stored
UniqueViolation(us, email) == \E i \in DOMAIN us : us[i].email = email

\* The try block of register_user.  The user, profile and goals rows are added
\* to one session (user_profiles.user_id and user_goals.user_id are unique, so
\* each table is the set of user ids it holds rows for); commit makes all of
\* them permanent, and the rollback of the except branch, taken when the
\* insert or the commit raises, none.
InsertUser(us, ps, gs, email, password, commitOk) ==
  LET id == Len(us) + 1
      committed == [users |-> us, profiles |-> ps, goals |-> gs]
      pending == [users |-> Append(us, NewUser(email, password)),
                  profiles |-> ps \cup {id}, goals |-> gs \cup {id}]
      stored == commitOk /\ ~UniqueViolation(us, email)
      after == Commit(committed, pending, stored)
  IN [users |-> after.users, profiles |-> after.profiles, goals |-> after.goals,
      user |-> IF stored THEN Some(id) ELSE None,
      error |-> IF stored THEN None
                ELSE Some("Registration failed. Please try again.")]

\* faulty variant: db.flush() makes the user row permanent, so a commit that
\* fails afterwards loses only the profile and the goals
register_user_FlushCommitsUser(us, ps, gs, email, password, commitOk) ==
  IF QueryByEmail(us, email) # None
    THEN [users |-> us, profiles |-> ps, goals |-> gs, user |-> None,
          error |-> Some("Email already registered")]
  ELSE IF ~validate_password_strength(password)[1]
    THEN [users |-> us, profiles |-> ps, goals |-> gs, user |-> None,
          error |-> Some(validate_password_strength(password)[2])]
  ELSE LET id == Len(us) + 1 IN
       IF commitOk
         THEN [users |-> Append(us, NewUser(email, password)),
               profiles |-> ps \cup {id}, goals |-> gs \cup {id},
               user |-> Some(id), error |-> None]
         ELSE [users |-> Append(us, NewUser(email, password)),
               profiles |-> ps, goals |-> gs, user |-> None,
               error |-> Some("Registration failed. Please try again.")]

\* [users, profiles, goals, user, error]: the committed tables afterwards and
\* the returned (user, error_message)
register_user(us, ps, gs, email, password, commitOk) ==
  IF QueryByEmail(us, email) # None
    THEN [users |-> us, profiles |-> ps, goals |-> gs, user |-> None,
          error |-> Some("Email already registered")]
  ELSE IF ~validate_password_strength(password)[1]
    THEN [users |-> us, profiles |-> ps, goals |-> gs, user |-> None,
          error |-> Some(validate_password_strength(password)[2])]
  ELSE InsertUser(us, ps, gs, email, password, commitOk)

\* faulty variant: a wrong current password counts as a failed login
change_password_CountsWrongCurrent(us, id, current_password, new_password, commitOk) ==
  IF ~verify_password(current_password, us[id].hashed_password)
    THEN [users |-> Commit(us, [us EXCEPT ![id] = RecordFailure(@, 0)], commitOk),
          ok |-> FALSE, raised |-> ~commitOk,
          message |-> "Current password is incorrect"]
  ELSE IF ~validate_password_strength(new_password)[1]
    THEN [users |-> us, ok |-> FALSE, raised |-> FALSE,
          message |-> validate_password_strength(new_password)[2]]
  ELSE [users |-> Commit(us, [us EXCEPT ![id].hashed_password =
                                get_password_hash(new_password)], commitOk),
        ok |-> commitOk, raised |-> ~commitOk,
        message |-> "Password changed successfully"]

\* faulty variant: the current password is not verified
change_password_SkipsCurrentCheck(us, id, current_password, new_password, commitOk) ==
  IF ~validate_password_strength(new_password)[1]
    THEN [users |-> us, ok |-> FALSE, raised |-> FALSE,
          message |-> validate_password_strength(new_password)[2]]
  ELSE [users |-> Commit(us, [us EXCEPT ![id].hashed_password =
                                get_password_hash(new_password)], commitOk),
        ok |-> commitOk, raised |-> ~commitOk,
        message |-> "Password changed successfully"]

\* faulty variant: a password change also clears the failure counter
change_password_ResetsCount(us, id, current_password, new_password, commitOk) ==
  IF ~verify_password(current_password, us[id].hashed_password)
    THEN [users |-> us, ok |-> FALSE, raised |-> FALSE,
          message |-> "Current password is incorrect"]
  ELSE IF ~validate_password_strength(new_password)[1]
    THEN [users |-> us, ok |-> FALSE, raised |-> FALSE,
          message |-> validate_password_strength(new_password)[2]]
  ELSE [users |-> Commit(us, [us EXCEPT ![id].hashed_password =
                                get_password_hash(new_password),
                              ![id].failed_login_attempts = 0], commitOk),
        ok |-> commitOk, raised |-> ~commitOk,
        message |-> "Password changed successfully"]

\* [users, ok, message, raised]
change_password(us, id, current_password, new_password, commitOk) ==
  IF ~verify_password(current_password, us[id].hashed_password)
    THEN [users |-> us, ok |-> FALSE, raised |-> FALSE,
          message |-> "Current password is incorrect"]
  ELSE IF ~validate_password_strength(new_password)[1]
    THEN [users |-> us, ok |-> FALSE, raised |-> FALSE,
          message |-> validate_password_strength(new_password)[2]]
  ELSE [users |-> Commit(us, [us EXCEPT ![id].hashed_password =
                                get_password_hash(new_password)], commitOk),
        ok |-> commitOk, raised |-> ~commitOk,
        message |-> "Password changed successfully"]

deactivate_user(us, id, commitOk) ==
  Commit(us, [us EXCEPT ![id].is_active = FALSE], commitOk)

(***************************************************************************)
(* api/deps.py: the request authenticator.                                 *)
(***************************************************************************)
\* faulty variant: an expired token gets a detail of its own
get_current_user_ExpiredDetail(us, t, token) ==
  LET user_id == verify_token(token, "access", t) IN
  IF user_id = None
    THEN [status |-> 401,
          detail |-> IF /\ token.payload # None
                        /\ token.sig = Sign(token.payload[1], SECRET_KEY)
                        /\ JwtExpired(token.payload[1], t)
                       THEN "Token has expired"
                       ELSE "Could not validate credentials",
          user |-> None]
  ELSE LET user == QueryById(us, ToInt(user_id[1])) IN
  IF user = None
    THEN [status |-> 401, detail |-> "Could not validate credentials", user |-> None]
  ELSE IF ~us[user[1]].is_active
    THEN [status |-> 403, detail |-> "User account is deactivated", user |-> None]
  ELSE [status |-> 200, detail |-> "", user |-> user]

\* [status, detail, user]: the HTTPException raised, or status 200 and the user
get_current_user(us, t, token) ==
  LET user_id == verify_token(token, "access", t) IN
  IF user_id = None
    THEN [status |-> 401, detail |-> "Could not validate credentials", user |-> None]
  ELSE LET user == QueryById(us, ToInt(user_id[1])) IN
  IF user = None
    THEN [status |-> 401, detail |-> "Could not validate credentials", user |-> None]
  ELSE IF ~us[user[1]].is_active
    THEN [status |-> 403, detail |-> "User account is deactivated", user |-> None]
  ELSE [status |-> 200, detail |-> "", user |-> user]

\* the user, or None
get_optional_user(us, t, token) ==
  LET user_id == verify_token(token, "access", t) IN
  IF user_id = None THEN None ELSE QueryById(us, ToInt(user_id[1]))

(***************************************************************************)
(* Responses and the tokens a client presents.                             *)
(***************************************************************************)
Response(op, status, detail, body) ==
  [op |-> op, status |-> status, detail |-> detail, body |-> body]

\* main.py general_exception_handler: an exception that is no HTTPException
InternalError(op) == Response(op, 500, "An unexpected error occurred", None)

\* main.py validation_exception_handler: the request body fails its schema
ValidationError(op) == Response(op, 422, "Validation error", None)

\* the client keeps a delivered pair while it has room for it
Keep(pairs, tokens) ==
  IF Cardinality(pairs \cup {tokens}) <= MaxHeld THEN pairs \cup {tokens} ELSE pairs

Malformed == [payload |-> None, sig |-> None]
Forged ==
  Encode([sub |-> ToStr(1), exp |-> 2 * Days(REFRESH_TOKEN_EXPIRE_DAYS),
          type |-> "access", iat |-> 0], "attacker-key")

Presentable ==
  {p.access_token : p \in held} \cup {p.refresh_token : p \in held}
    \cup {Malformed, Forged}

\* the requests being handled, one per worker: the position of the handler,
\* its arguments, the row its session loaded and, once it returned, the
\* (user, error_message) it returned or the fact that it raised
Workers == 1..MaxWorkers
Idle ==
  [pc |-> "idle", op |-> "none", email |-> "", password |-> <<>>, id |-> 0,
   seen |-> None, user |-> None, error |-> None, raised |-> FALSE]

(***************************************************************************)
(* api/auth.py: the routes, one action each.                               *)
(***************************************************************************)
Init ==
  /\ users = <<>>
  /\ profiles = {}
  /\ goals = {}
  /\ now = 0
  /\ held = {}
  /\ resp = Response("none", 0, "", None)
  /\ calls = [w \in Workers |-> Idle]
  /\ storeUp = TRUE

\* the response of POST /register to the result r of register_user
RegisterResponse(r, t) ==
  IF r.error # None THEN Response("register", 400, r.error[1], None)
  ELSE Response("register", 201, "", Some(create_tokens(r.user[1], t)))

\* a commit can fail only in a request that reaches db.commit()
Register(email, password, commitOk) ==
  IF Len(password) < 8
    THEN /\ commitOk
         /\ resp' = ValidationError("register")
         /\ UNCHANGED <<users, profiles, goals, now, held, calls, storeUp>>
  ELSE LET r == register_user(users, profiles, goals, email, password, commitOk) IN
    /\ commitOk \/ r.error = Some("Registration failed. Please try again.")
    /\ Len(r.users) <= MaxUsers
    /\ users' = r.users
    /\ profiles' = r.profiles
    /\ goals' = r.goals
    /\ resp' = RegisterResponse(r, now)
    /\ held' = IF resp'.body = None THEN held ELSE Keep(held, resp'.body[1])
    /\ now' = now
    /\ calls' = calls
    /\ storeUp' = storeUp

\* the response of POST /login to the result r of authenticate_user
LoginResponse(r, t) ==
  IF r.raised THEN InternalError("login")
  ELSE IF r.error # None THEN Response("login", 401, r.error[1], None)
  ELSE Response("login", 200, "", Some(create_tokens(r.user[1], t)))

Login(email, password, commitOk) ==
  LET r == authenticate_user(users, now, email, password, commitOk) IN
  /\ commitOk \/ r.raised
  /\ \A i \in DOMAIN r.users : r.users[i].failed_login_attempts <= MaxAttempts
  /\ users' = r.users
  /\ resp' = LoginResponse(r, now)
  /\ held' = IF resp'.body = None THEN held ELSE Keep(held, resp'.body[1])
  /\ UNCHANGED <<profiles, goals, now, calls, storeUp>>

\* the response of POST /refresh to the result of refresh_access_token
RefreshResponse(tokens) ==
  IF tokens = None THEN Response("refresh", 401, "Invalid refresh token", None)
  ELSE Response("refresh", 200, "", tokens)

\* faulty variant: a refresh that succeeds stamps last_login
Refresh_StampsLastLogin(token) ==
  /\ resp' = RefreshResponse(refresh_access_token(users, now, token))
  /\ held' = IF resp'.body = None THEN held ELSE Keep(held, resp'.body[1])
  /\ users' = IF resp'.body = None THEN users
              ELSE [users EXCEPT
                      ![ToInt(token.payload[1].sub)].last_login = Some(now)]
  /\ UNCHANGED <<profiles, goals, now, calls, storeUp>>

Refresh(token) ==
  /\ resp' = RefreshResponse(refresh_access_token(users, now, token))
  /\ held' = IF resp'.body = None THEN held ELSE Keep(held, resp'.body[1])
  /\ UNCHANGED <<users, profiles, goals, now, calls, storeUp>>

Me(token) ==
  LET a == get_current_user(users, now, token) IN
  /\ resp' = Response("me", a.status, a.detail, a.user)
  /\ UNCHANGED <<users, profiles, goals, now, held, calls, storeUp>>

ChangePassword(token) ==
  LET a == get_current_user(users, now, token) IN
  IF a.user = None
    THEN /\ resp' = Response("change-password", a.status, a.detail, None)
         /\ UNCHANGED <<users, profiles, goals, now, held, calls, storeUp>>
  ELSE \E current_password \in Passwords, new_password \in NewPasswords,
          commitOk \in BOOLEAN :
    IF Len(new_password) < 8
      THEN /\ commitOk
           /\ resp' = ValidationError("change-password")
           /\ UNCHANGED <<users, profiles, goals, now, held, calls, storeUp>>
    ELSE LET r == change_password(users, a.user[1], current_password,
                                  new_password, commitOk) IN
      /\ commitOk \/ r.raised
      /\ users' = r.users
      /\ resp' = IF r.raised THEN InternalError("change-password")
                 ELSE IF r.ok THEN Response("change-password", 200, r.message, None)
                 ELSE Response("change-password", 400, r.message, None)
      /\ UNCHANGED <<profiles, goals, now, held, calls, storeUp>>

\* faulty variant: logging out deactivates the identity
Logout_Deactivates(token) ==
  LET a == get_current_user(users, now, token) IN
  /\ resp' = IF a.user = None THEN Response("logout", a.status, a.detail, None)
             ELSE Response("logout", 200, "Logged out successfully", None)
  /\ users' = IF a.user = None THEN users
              ELSE deactivate_user(users, a.user[1], TRUE)
  /\ UNCHANGED <<profiles, goals, now, held, calls, storeUp>>

Logout(token) ==
  LET a == get_current_user(users, now, token) IN
  /\ resp' = IF a.user = None THEN Response("logout", a.status, a.detail, None)
             ELSE Response("logout", 200, "Logged out successfully", None)
  /\ UNCHANGED <<users, profiles, goals, now, held, calls, storeUp>>

Deactivate(id, commitOk) ==
  /\ id \in DOMAIN users
  /\ users' = deactivate_user(users, id, commitOk)
  /\ UNCHANGED <<profiles, goals, now, held, resp, calls, storeUp>>

\* datetime.utcnow() moves on between requests.  The clock counts the minutes
\* since the first registration: while the users table is empty no deadline
\* exists and every response is the same at every clock reading.
Tick ==
  /\ users # <<>>
  /\ \E t \in TimePoints : t > now /\ now' = t
  /\ UNCHANGED <<users, profiles, goals, held, resp, calls, storeUp>>

Next ==
  \/ \E e \in Emails, p \in NewPasswords, ok \in BOOLEAN : Register(e, p, ok)
  \/ \E e \in Emails, p \in Passwords, ok \in BOOLEAN : Login(e, p, ok)
  \/ \E tok \in Presentable : Refresh(tok)
  \/ \E tok \in Presentable : Me(tok)
  \/ \E tok \in Presentable : ChangePassword(tok)
  \/ \E tok \in Presentable : Logout(tok)
  \/ \E id \in 1..MaxUsers, ok \in BOOLEAN : Deactivate(id, ok)
  \/ Tick

Spec == Init /\ [][Next]_vars

(***************************************************************************)
(* The same handlers run by concurrent workers.  Each request has its own  *)
(* session (db/database.py get_db): a handler reads committed rows, and    *)
(* what it changed becomes visible to the others at its commit.  A handler *)
(* that writes takes two steps, its query and its commit; the requests of  *)
(* other workers may run between the two.  The race is over within one     *)
(* clock reading.                                                          *)
(***************************************************************************)
RaceRegisterPasswords == {PwStrong, PwNoSymbol}
RaceLoginPasswords == {PwStrong, PwOther}
\* the racing logins are all for one email
RaceLoginEmails == {"real@x.com"}

Returned(c, user, error, raised) ==
  [c EXCEPT !.pc = "done", !.user = user, !.error = error, !.raised = raised]

\* register_user up to the try block: the duplicate check and the strength
\* check against the rows committed so far
BeginRegister(w, email, password) ==
  /\ calls[w].pc = "idle"
  /\ storeUp
  /\ LET c == [Idle EXCEPT !.op = "register", !.email = email, !.password = password]
         r == register_user(users, profiles, goals, email, password, TRUE)
     IN calls' = [calls EXCEPT ![w] =
                    IF r.error # None THEN Returned(c, None, r.error, FALSE)
                    ELSE [c EXCEPT !.pc = "insert"]]
  /\ UNCHANGED <<users, profiles, goals, now, held, resp, storeUp>>

\* the try block of register_user, against the rows committed by now
FinishRegister(w, commitOk) ==
  /\ calls[w].pc = "insert"
  /\ storeUp
  /\ LET c == calls[w]
         r == InsertUser(users, profiles, goals, c.email, c.password, commitOk)
     IN /\ Len(r.users) <= MaxRaceUsers
        /\ users' = r.users
        /\ profiles' = r.profiles
        /\ goals' = r.goals
        /\ calls' = [calls EXCEPT ![w] = Returned(c, r.user, r.error, FALSE)]
  /\ UNCHANGED <<now, held, resp, storeUp>>

\* variant: the counter is raised by the database from the committed value
\* (SET failed_login_attempts = failed_login_attempts + 1), not written from
\* the loaded one
Flush_RaisedInPlace(current, loaded, changed) ==
  [f \in DOMAIN current |->
     IF changed[f] = loaded[f] THEN current[f]
     ELSE IF f = "failed_login_attempts" /\ changed[f] > loaded[f]
       THEN current[f] + (changed[f] - loaded[f])
     ELSE changed[f]]

\* the UPDATE a commit sends for a loaded row: the columns whose value is no
\* longer the loaded one, written over the row as it is committed by now
Flush(current, loaded, changed) ==
  [f \in DOMAIN current |-> IF changed[f] # loaded[f] THEN changed[f] ELSE current[f]]

\* authenticate_user up to its commit: the query and the checks on the loaded
\* row; a call that has nothing to write returns at once
BeginLogin(w, email, password) ==
  /\ calls[w].pc = "idle"
  /\ storeUp
  /\ LET c == [Idle EXCEPT !.op = "login", !.email = email, !.password = password]
         r == authenticate_user(users, now, email, password, TRUE)
         found == QueryByEmail(users, email)
     IN calls' = [calls EXCEPT ![w] =
                    IF r.users = users /\ r.user = None
                      THEN Returned(c, None, r.error, FALSE)
                    ELSE [c EXCEPT !.pc = "commit", !.id = found[1],
                                   !.seen = Some(users[found[1]])]]
  /\ UNCHANGED <<users, profiles, goals, now, held, resp, storeUp>>

\* the rest of authenticate_user: the changes made to the loaded row are
\* committed over the row as the other workers left it
FinishLogin(w, commitOk) ==
  /\ calls[w].pc = "commit"
  /\ storeUp
  /\ LET c == calls[w]
         r == authenticate_user([users EXCEPT ![c.id] = c.seen[1]], now,
                                c.email, c.password, TRUE)
         row == Flush(users[c.id], c.seen[1], r.users[c.id])
     IN /\ row.failed_login_attempts <= MaxAttempts
        /\ users' = Commit(users, [users EXCEPT ![c.id] = row], commitOk)
        /\ calls' = [calls EXCEPT ![w] =
                       IF commitOk THEN Returned(c, r.user, r.error, FALSE)
                       ELSE Returned(c, None, None, TRUE)]
  /\ UNCHANGED <<profiles, goals, now, held, resp, storeUp>>

\* the response is sent and the worker takes the next request
Return(w) ==
  /\ calls[w].pc = "done"
  /\ calls' = [calls EXCEPT ![w] = Idle]
  /\ UNCHANGED <<users, profiles, goals, now, held, resp, storeUp>>

NextConcurrent ==
  \/ \E w \in Workers, e \in Emails, p \in RaceRegisterPasswords : BeginRegister(w, e, p)
  \/ \E w \in Workers, ok \in BOOLEAN : FinishRegister(w, ok)
  \/ \E w \in Workers, e \in RaceLoginEmails, p \in RaceLoginPasswords : BeginLogin(w, e, p)
  \/ \E w \in Workers, ok \in BOOLEAN : FinishLogin(w, ok)
  \/ \E w \in Workers : Return(w)

SpecConcurrent == Init /\ [][NextConcurrent]_vars

(***************************************************************************)
(* The concurrent handlers with a store that may stop answering.  The      *)
(* queries and commits of a handler are blocking calls on its session; the *)
(* engine is created with a pool size, pre-ping and recycling and with no  *)
(* connect, statement or lock timeout, and no handler sets one, so a       *)
(* handler waits for the store for as long as the store takes.  A worker   *)
(* whose store answers again and again gets its answer, and a worker that  *)
(* has its result returns it; whether the store answers again is up to the *)
(* store.                                                                  *)
(***************************************************************************)
StoreStops ==
  /\ storeUp
  /\ storeUp' = FALSE
  /\ UNCHANGED <<users, profiles, goals, now, held, resp, calls>>

StoreResumes ==
  /\ ~storeUp
  /\ storeUp' = TRUE
  /\ UNCHANGED <<users, profiles, goals, now, held, resp, calls>>

NextUnresponsive ==
  \/ NextConcurrent
  \/ StoreStops
  \/ StoreResumes

WorkerFairness ==
  \A w \in Workers :
    /\ SF_vars(\E ok \in BOOLEAN : FinishRegister(w, ok))
    /\ SF_vars(\E ok \in BOOLEAN : FinishLogin(w, ok))
    /\ WF_vars(Return(w))

SpecUnresponsive == Init /\ [][NextUnresponsive]_vars /\ WorkerFairness

(***************************************************************************)
(* Properties.                                                             *)
(***************************************************************************)
Ids == DOMAIN users
WrongPasswords(i) == {p \in Passwords : get_password_hash(p) # users[i].hashed_password}
RightPasswords(i) == Passwords \ WrongPasswords(i)
Unregistered == {e \in Emails : \A i \in Ids : users[i].email # e}

\* the response to POST /login now, the store accepting its commit
Attempt(us, t, email, password) ==
  LoginResponse(authenticate_user(us, t, email, password, TRUE), t)

IsAccountLocked(r) ==
  /\ r.status = 401
  /\ r.detail = "Account is temporarily locked. Please try again later."
IsInvalidCredentials(r) ==
  /\ r.status = 401
  /\ r.detail = "Invalid email or password"

\* the rows after n wrong-password attempts on row i, all at time t
RECURSIVE AfterFailures(_, _, _, _)
AfterFailures(us, t, i, n) ==
  IF n = 0 THEN us
  ELSE LET p == CHOOSE q \in Passwords : get_password_hash(q) # us[i].hashed_password
       IN AfterFailures(authenticate_user(us, t, us[i].email, p, TRUE).users, t, i, n - 1)

\* a step in which a failed password verification of row i is committed
FailureStep(i) ==
  /\ i \in DOMAIN users'
  /\ users'[i].failed_login_attempts = users[i].failed_login_attempts + 1

\* the failure that brings the count to 5 or more sets the lock for 15 minutes
C1_LockSet(i) ==
  (FailureStep(i) /\ users'[i].failed_login_attempts >= 5)
    => users'[i].locked_until = Some(now + 15)
\* no step changes a lock that is still in the future
C1_LockKept(i) ==
  (users[i].locked_until # None /\ now' < users[i].locked_until[1])
    => /\ i \in DOMAIN users'
       /\ users'[i].locked_until = users[i].locked_until
\* while locked, every login of the identity is answered AccountLocked
C1_LockedOut(us, t) ==
  \A i \in DOMAIN us :
    (us[i].locked_until # None /\ t < us[i].locked_until[1])
      => \A p \in Passwords : IsAccountLocked(Attempt(us, t, us[i].email, p))
\* five wrong passwords in a row on a fresh identity lock it out for the
\* following 15 minutes
C1_FiveFailures(us, t) ==
  \A i \in DOMAIN us :
    (us[i].is_active /\ ~IsLocked(us[i], t) /\ us[i].failed_login_attempts = 0)
      => LET after == AfterFailures(us, t, i, 5) IN
         \A later \in {x \in TimePoints \cup {t + 14} : t <= x /\ x < t + 15} :
         \A p \in Passwords : IsAccountLocked(Attempt(after, later, us[i].email, p))
\* C1: once the 5th consecutive wrong-password attempt on an active, unlocked
\* identity is recorded, locked_until is that moment plus 15 minutes, no step
\* changes it while fewer than 15 minutes have passed, and in every state in
\* which fewer than 15 minutes have passed every authenticate attempt for the
\* identity, with a wrong or the correct password, fails AccountLocked.
C1_LockedFor15Minutes ==
  [][/\ \A i \in Ids : C1_LockSet(i) /\ C1_LockKept(i)
     /\ C1_LockedOut(users', now')
     /\ C1_FiveFailures(users', now')]_vars

C1_Witness ==
  \E i \in Ids :
    /\ users[i].failed_login_attempts = 5
    /\ users[i].locked_until # None
    /\ now > users[i].locked_until[1] - 15
    /\ now < users[i].locked_until[1]
    /\ resp.op = "login"
    /\ IsAccountLocked(resp)

\* C2 (as stated): the attempt that records the 5th consecutive failure is
\* itself answered AccountLocked.
C2_FifthAttemptLocked ==
  [][\A i \in Ids :
       (FailureStep(i) /\ users'[i].failed_login_attempts = 5)
         => IsAccountLocked(resp')]_vars

\* C2 (amended): the attempt that records the 5th consecutive failure is
\* answered InvalidCredentials, like the four before it, and sets the lock;
\* the attempts that follow it within 15 minutes are answered AccountLocked.
C2_FifthAttemptInvalidThenLocked ==
  [][\A i \in Ids :
       (FailureStep(i) /\ users'[i].failed_login_attempts = 5)
         => /\ resp'.op = "login"
            /\ IsInvalidCredentials(resp')
            /\ IsLocked(users'[i], now')
            /\ \A p \in Passwords :
                 IsAccountLocked(Attempt(users', now', users'[i].email, p))]_vars

C2_Witness ==
  \E i \in Ids :
    /\ users[i].failed_login_attempts = 5
    /\ users[i].locked_until = Some(now + 15)
    /\ resp.op = "login"
    /\ IsInvalidCredentials(resp)

\* C3: at any moment, a login for an email that matches no identity and a
\* login with a wrong password for an active, unlocked identity get the same
\* response: same status, same detail, same body.
C3_SameErrorUnknownAndWrong ==
  \A i \in Ids : \A e \in Unregistered :
    (users[i].is_active /\ ~IsLocked(users[i], now))
      => \A p \in WrongPasswords(i) : \A q \in Passwords :
           /\ Attempt(users, now, users[i].email, p) = Attempt(users, now, e, q)
           /\ IsInvalidCredentials(Attempt(users, now, e, q))

C3_Witness ==
  \E i \in Ids :
    /\ Unregistered # {}
    /\ users[i].is_active /\ ~IsLocked(users[i], now)
    /\ users[i].failed_login_attempts \in 1..4
    /\ resp.op = "login"
    /\ IsInvalidCredentials(resp)

\* C4 (as stated): in every store state, a login with a password that is not
\* the identity's gets the response a login for an unregistered email gets.
C4_NoEnumeration ==
  \A i \in Ids : \A e \in Unregistered :
    \A p \in WrongPasswords(i) : \A q \in Passwords :
      Attempt(users, now, users[i].email, p) = Attempt(users, now, e, q)

\* the token pairs issued so far that the model still knows: those the client
\* keeps and the one in the latest response
IssuedPairs ==
  held \cup (IF resp.op \in {"register", "login", "refresh"} /\ resp.body # None
               THEN {resp.body[1]} ELSE {})
TokenTypes == {"access", "refresh"}

\* C5: a refresh token of an issued pair is rejected where an access token is
\* required and an access token where a refresh token is required, at every
\* clock reading, before and after expiry; whatever token verify accepts has
\* the type verify was called with.
C5_TypeSeparation ==
  /\ \A pair \in IssuedPairs : \A t \in TimePoints \cup {now} :
       /\ verify_token(pair.refresh_token, "access", t) = None
       /\ verify_token(pair.access_token, "refresh", t) = None
  /\ \A tok \in Presentable \cup {pr.access_token : pr \in IssuedPairs}
                \cup {pr.refresh_token : pr \in IssuedPairs} :
       \A ty \in TokenTypes :
         verify_token(tok, ty, now) # None
           => tok.payload # None /\ tok.payload[1].type = ty

\* an unexpired pair is held for an active identity, and a request that
\* requires an access token was refused
C5_Witness ==
  \E pair \in held : \E i \in Ids :
    /\ pair.access_token.payload[1].sub = ToStr(i)
    /\ users[i].is_active
    /\ now <= pair.access_token.payload[1].exp
    /\ resp.op = "me"
    /\ resp.status = 401

\* C6: a wrong password for an active, unlocked identity raises
\* failed_login_attempts by exactly 1, sets locked_until (to now + 15 minutes)
\* exactly when the new count is at least 5, and changes nothing else; after 1
\* to 4 consecutive failures from count 0 the identity is not locked and a
\* login with the correct password succeeds.
C6_FailureCounts ==
  \A i \in Ids :
    (users[i].is_active /\ ~IsLocked(users[i], now)) =>
      /\ \A p \in WrongPasswords(i) :
           LET after == authenticate_user(users, now, users[i].email, p, TRUE).users
               n == users[i].failed_login_attempts + 1
           IN /\ DOMAIN after = DOMAIN users
              /\ after[i].failed_login_attempts = n
              /\ after[i].locked_until =
                   IF n >= 5 THEN Some(now + 15) ELSE users[i].locked_until
              /\ after = [users EXCEPT
                            ![i].failed_login_attempts = after[i].failed_login_attempts,
                            ![i].locked_until = after[i].locked_until]
      /\ users[i].failed_login_attempts = 0 =>
           \A k \in 1..4 :
             LET after == AfterFailures(users, now, i, k) IN
             /\ after[i].failed_login_attempts = k
             /\ after[i].locked_until = None
             /\ \A p \in RightPasswords(i) :
                  Attempt(after, now, users[i].email, p).status = 200

C6_Witness ==
  \E i \in Ids :
    /\ users[i].failed_login_attempts = 4
    /\ users[i].locked_until = None
    /\ users[i].is_active
    /\ resp.op = "login"
    /\ IsInvalidCredentials(resp)

\* C7: an identity whose locked_until is still stored is answered
\* AccountLocked while now < locked_until; once now >= locked_until no login
\* is answered AccountLocked and, the identity being active, a login with the
\* correct password succeeds.
C7_LazyUnlock ==
  \A i \in Ids :
    users[i].locked_until # None =>
      IF now < users[i].locked_until[1]
        THEN \A p \in Passwords :
               IsAccountLocked(Attempt(users, now, users[i].email, p))
        ELSE /\ \A p \in Passwords :
                  ~IsAccountLocked(Attempt(users, now, users[i].email, p))
             /\ users[i].is_active =>
                  \A p \in RightPasswords(i) :
                    Attempt(users, now, users[i].email, p).status = 200

\* a 6th failure was counted: a login after the lock lapsed was answered
\* InvalidCredentials, locked_until never having been cleared
C7_Witness ==
  \E i \in Ids :
    /\ users[i].failed_login_attempts = 6
    /\ users[i].locked_until # None
    /\ resp.op = "login"
    /\ IsInvalidCredentials(resp)

\* C8: whenever a step lowers an identity's failed_login_attempts, it lowers
\* it to 0 and the step is a successful login of that identity; no step
\* removes the identity.
C8_ResetOnlyOnSuccess ==
  [][\A i \in Ids :
       /\ i \in DOMAIN users'
       /\ users'[i].failed_login_attempts < users[i].failed_login_attempts
            => /\ users'[i].failed_login_attempts = 0
               /\ resp'.op = "login"
               /\ resp'.status = 200
               /\ resp'.body[1].access_token.payload[1].sub = ToStr(i)
               /\ users'[i].last_login = Some(now)]_vars

\* a password change succeeded after failures were counted, and the count
\* is still there
C8_Witness ==
  \E i \in Ids :
    /\ users[i].failed_login_attempts > 0
    /\ resp.op = "change-password"
    /\ resp.status = 200

\* C9: for every issued pair and every clock reading t from its issue on,
\* verify(access_token, access) returns the subject while t <= issue + 30
\* minutes and fails afterwards, and verify(refresh_token, refresh) returns the
\* subject while t <= issue + 7 days and fails afterwards.
C9_IndependentExpiry ==
  \A pair \in IssuedPairs :
    LET a == pair.access_token.payload[1]
        r == pair.refresh_token.payload[1]
    IN \A t \in {x \in TimePoints \cup {now} : x >= a.iat} :
         /\ verify_token(pair.access_token, "access", t) =
              IF t <= a.iat + 30 THEN Some(a.sub) ELSE None
         /\ verify_token(pair.refresh_token, "refresh", t) =
              IF t <= r.iat + 7 * 24 * 60 THEN Some(r.sub) ELSE None

\* a refresh succeeded with a pair whose access token had expired
C9_Witness ==
  \E pair \in held :
    /\ now > pair.access_token.payload[1].exp
    /\ now <= pair.refresh_token.payload[1].exp
    /\ resp.op = "refresh"
    /\ resp.status = 200

\* a step that answers a register, login or refresh request with a token pair
IssuingStep ==
  /\ now' = now
  /\ \A i \in Ids : i \in DOMAIN users' /\ users'[i].is_active = users[i].is_active
  /\ resp'.op \in {"register", "login", "refresh"}
  /\ resp'.body # None
\* C10: every step that answers a register, login or refresh request with a
\* token pair issues one subject, an existing active identity (at login, the
\* one that just logged in; at registration, the new one), in an access token
\* expiring 30 minutes and a refresh token expiring 7 days after the moment
\* of issue, with token_type "bearer" and expires_in 1800.
C10_IssuePair ==
  [][IssuingStep =>
       LET pair == resp'.body[1]
           a == pair.access_token.payload[1]
           r == pair.refresh_token.payload[1]
       IN /\ pair.token_type = "bearer"
          /\ pair.expires_in = 1800
          /\ a.type = "access" /\ r.type = "refresh"
          /\ a.sub = r.sub
          /\ a.iat = now /\ r.iat = now
          /\ a.exp = now + 30
          /\ r.exp = now + 7 * 24 * 60
          /\ \E i \in DOMAIN users' :
               /\ a.sub = ToStr(i)
               /\ users'[i].is_active
               /\ resp'.op = "login" => users'[i].last_login = Some(now)
               /\ resp'.op = "register" => i = Len(users) + 1]_vars

C10_Witness ==
  /\ resp.op = "login"
  /\ resp.status = 200
  /\ resp.body # None
  /\ now > 0

\* a step that answers a refresh request with a new pair
RefreshStep ==
  /\ resp' # resp
  /\ resp'.op = "refresh"
  /\ resp'.status = 200

\* the token is accepted by refresh at every clock reading from t up to its
\* expiry, 7 days after its issue
AcceptedUntilExpiry(us, t, tok) ==
  LET r == tok.payload[1] IN
  \A x \in {y \in TimePoints \cup {t} : t <= y /\ y <= r.iat + 7 * 24 * 60} :
    refresh_access_token(us, x, tok) = Some(create_tokens(ToInt(r.sub), x))

\* C11: a successful refresh changes no identity and takes no token from the
\* client, and after every step, however many refreshes came before it, every
\* issued refresh token whose subject is an active identity is accepted by
\* refresh at every clock reading up to the token's own expiry.
C11_RefreshDoesNotConsume ==
  [][/\ RefreshStep => users' = users /\ held \subseteq held'
     /\ \A tok \in {p.refresh_token : p \in held'} :
          LET id == ToInt(tok.payload[1].sub) IN
          (id \in DOMAIN users' /\ users'[id].is_active)
            => AcceptedUntilExpiry(users', now', tok)]_vars

\* a refresh with the kept token succeeded some time after the token was
\* issued, and the kept token is still accepted
C11_Witness ==
  \E pair \in held :
    /\ resp.op = "refresh"
    /\ resp.status = 200
    /\ resp.body[1].refresh_token.payload[1].iat > pair.refresh_token.payload[1].iat
    /\ resp.body[1].refresh_token.payload[1].iat = now
    /\ refresh_access_token(users, now, pair.refresh_token) # None

\* the token is a signed, unexpired refresh token at time t
IsLiveRefreshToken(tok, t) ==
  /\ tok.payload # None
  /\ tok.sig = Sign(tok.payload[1], SECRET_KEY)
  /\ tok.payload[1].type = "refresh"
  /\ t <= tok.payload[1].exp

\* the store without its identities
NoUsers == <<>>

\* C12: at every clock reading, refresh returns a pair only for a signed,
\* unexpired refresh token whose subject is an existing identity with
\* is_active = TRUE, and the pair is issued for that subject; for a token whose
\* subject is deactivated or is no longer in the store it returns nothing, and
\* the route then answers 401 "Invalid refresh token" with no tokens.
C12_RefreshRequiresActiveIdentity ==
  \A tok \in Presentable : \A t \in TimePoints \cup {now} :
    LET out == refresh_access_token(users, t, tok)
        live == IsLiveRefreshToken(tok, t)
    IN /\ out # None =>
            /\ live
            /\ ToInt(tok.payload[1].sub) \in DOMAIN users
            /\ users[ToInt(tok.payload[1].sub)].is_active
            /\ out = Some(create_tokens(ToInt(tok.payload[1].sub), t))
            /\ RefreshResponse(out) = Response("refresh", 200, "", out)
       /\ (live /\ ~users[ToInt(tok.payload[1].sub)].is_active) =>
            /\ out = None
            /\ RefreshResponse(out) =
                 Response("refresh", 401, "Invalid refresh token", None)
       /\ live =>
            RefreshResponse(refresh_access_token(NoUsers, t, tok)) =
              Response("refresh", 401, "Invalid refresh token", None)

\* an unexpired refresh token of a deactivated identity was refused
C12_Witness ==
  \E pair \in held :
    /\ IsLiveRefreshToken(pair.refresh_token, now)
    /\ ~users[ToInt(pair.refresh_token.payload[1].sub)].is_active
    /\ resp = Response("refresh", 401, "Invalid refresh token", None)

\* the token is a signed, unexpired access token at time t
IsLiveAccessToken(tok, t) ==
  /\ tok.payload # None
  /\ tok.sig = Sign(tok.payload[1], SECRET_KEY)
  /\ tok.payload[1].type = "access"
  /\ t <= tok.payload[1].exp

\* C13 (as stated): both request authenticators, get_current_user and
\* get_optional_user, resolve an identity only for a signed, unexpired access
\* token whose subject is an existing identity with is_active = TRUE;
\* get_current_user answers 401 when the token does not verify and 403 when
\* the identity is inactive; neither hands an inactive identity to a handler.
C13_NeverForwardsInactive ==
  \A tok \in Presentable :
    LET a == get_current_user(users, now, tok)
        o == get_optional_user(users, now, tok)
        live == IsLiveAccessToken(tok, now)
    IN /\ a.user # None =>
            /\ live
            /\ a.user = Some(ToInt(tok.payload[1].sub))
            /\ users[a.user[1]].is_active
            /\ a.status = 200
       /\ ~live => a.status = 401 /\ a.user = None
       /\ (live /\ ~users[ToInt(tok.payload[1].sub)].is_active) =>
            a.status = 403 /\ a.user = None
       /\ o # None =>
            /\ live
            /\ o = Some(ToInt(tok.payload[1].sub))
            /\ users[o[1]].is_active

\* C14: in every reachable store state, whatever registrations succeeded or
\* failed before it (a failed commit among them), the identities, the profile
\* records and the goals records are the same set of user ids: each identity
\* has its one profile and its one goals record, and no profile or goals
\* record is without its identity.
C14_NoOrphans ==
  /\ profiles = DOMAIN users
  /\ goals = DOMAIN users

\* a registration was lost to a failed commit while an identity is stored
C14_Witness ==
  /\ users # <<>>
  /\ resp = Response("register", 400, "Registration failed. Please try again.", None)

\* an email that differs from a registered one in the case of a letter only
CaseVariant == "Real@x.com"

\* the strength policy: 8 characters or more, with an uppercase letter, a
\* lowercase letter, a digit and a symbol of the fixed set
MeetsPolicy(password) ==
  /\ Len(password) >= 8
  /\ \E i \in 1..Len(password) : password[i] \in UpperChars
  /\ \E i \in 1..Len(password) : password[i] \in LowerChars
  /\ \E i \in 1..Len(password) : password[i] \in DigitChars
  /\ \E i \in 1..Len(password) : password[i] \in special_chars

WeakPasswordMessages ==
  {"Password must be at least 8 characters long",
   "Password must contain at least one uppercase letter",
   "Password must contain at least one lowercase letter",
   "Password must contain at least one digit",
   "Password must contain at least one special character"}

\* C15: in every store state, the store accepting the commit, register with
\* an email that some identity has exactly is refused "Email already
\* registered"; with a new email and a password that violates the policy it is
\* refused with a weak-password message; both leave users, profiles and goals
\* as they were and are answered 400 (a password under 8 characters is
\* stopped by the request schema before it reaches register).  Otherwise it appends one identity with
\* that email and password, is_active = TRUE, failed_login_attempts = 0 and no
\* locked_until, and answers 201 with a token pair for the new identity whose
\* expires_in is 1800.
C15_RegisterOutcomes ==
  \A e \in Emails \cup {CaseVariant} : \A p \in NewPasswords :
    LET r == register_user(users, profiles, goals, e, p, TRUE)
        out == RegisterResponse(r, now)
        unchanged == r.users = users /\ r.profiles = profiles /\ r.goals = goals
    IN IF \E i \in Ids : users[i].email = e
         THEN /\ unchanged
              /\ out = Response("register", 400, "Email already registered", None)
       ELSE IF ~MeetsPolicy(p)
         THEN /\ unchanged
              /\ r.user = None
              /\ r.error # None /\ r.error[1] \in WeakPasswordMessages
              /\ Len(p) >= 8 => out = Response("register", 400, r.error[1], None)
       ELSE /\ r.users = Append(users,
                            [email |-> e, hashed_password |-> get_password_hash(p),
                             is_active |-> TRUE, failed_login_attempts |-> 0,
                             locked_until |-> None, last_login |-> None])
            /\ verify_password(p, r.users[Len(r.users)].hashed_password)
            /\ r.user = Some(Len(users) + 1)
            /\ out.status = 201
            /\ out.body = Some(create_tokens(Len(users) + 1, now))
            /\ out.body[1].expires_in = 1800
            /\ out.body[1].access_token.payload[1].sub = ToStr(Len(users) + 1)

\* a second registration with the email of a stored identity was refused
C15_Witness ==
  /\ \E i \in Ids : users[i].is_active /\ users[i].failed_login_attempts = 0
  /\ resp = Response("register", 400, "Email already registered", None)

\* the register calls that returned and whose response is still being sent
ReturnedRegister(w) == calls[w].pc = "done" /\ calls[w].op = "register"

\* C16: whatever the interleaving of the register calls of concurrent
\* workers, no store state holds two identities with the same email, of the
\* calls for one email at most one returns an identity, that identity is the
\* stored row with this email, a call that returns an error returns no
\* identity, and the profile and goals records are those of the stored
\* identities: the losing call leaves no record behind.
C16_OneWinnerPerEmail ==
  /\ \A i, j \in DOMAIN users : users[i].email = users[j].email => i = j
  /\ profiles = DOMAIN users
  /\ goals = DOMAIN users
  /\ \A w \in Workers :
       ReturnedRegister(w) =>
         /\ calls[w].user = None <=> calls[w].error # None
         /\ calls[w].user # None =>
              /\ calls[w].user[1] \in DOMAIN users
              /\ users[calls[w].user[1]].email = calls[w].email
  /\ \A v, w \in Workers :
       (/\ ReturnedRegister(v) /\ ReturnedRegister(w)
        /\ calls[v].email = calls[w].email
        /\ calls[v].user # None /\ calls[w].user # None) => v = w

\* two register calls for one email both passed the duplicate check; one
\* stored the identity and the other was stopped at its insert
C16_Witness ==
  \E v, w \in Workers :
    /\ ReturnedRegister(v) /\ ReturnedRegister(w)
    /\ calls[v].email = calls[w].email
    /\ calls[v].user # None
    /\ calls[w].error = Some("Registration failed. Please try again.")
    /\ Cardinality({i \in DOMAIN users : users[i].email = calls[v].email}) = 1

\* a step in which worker w commits a failed password verification
FailureCommit(w) ==
  /\ calls[w].pc = "commit"
  /\ calls'[w].pc = "done"
  /\ calls'[w].error = Some("Invalid email or password")

\* worker w returned from a failed password verification it committed
ReturnedFailure(w) ==
  /\ calls[w].pc = "done"
  /\ calls[w].op = "login"
  /\ calls[w].seen # None
  /\ calls[w].error = Some("Invalid email or password")

\* C17: a failed attempt commits the count it loaded plus 1.  If no other
\* attempt was committed since it loaded the row (sequential access), the
\* committed count rises by exactly 1.  If one other failed attempt that
\* loaded the same count was committed in between (the two interleaved their
\* read-modify-write), the committed count stays where the other left it: one
\* update is lost, the count does not decrease and it is the count before the
\* race plus 1.
C17_LostUpdateOnly ==
  [][\A w \in Workers :
       FailureCommit(w) =>
         LET i == calls[w].id
             loaded == calls[w].seen[1].failed_login_attempts
         IN /\ users'[i].failed_login_attempts = loaded + 1
            /\ users[i].failed_login_attempts = loaded
                 => users'[i].failed_login_attempts = users[i].failed_login_attempts + 1
            /\ users[i].failed_login_attempts = loaded + 1
                 => users'[i].failed_login_attempts = users[i].failed_login_attempts
            /\ users[i].failed_login_attempts <= loaded + 1
                 => users'[i].failed_login_attempts >= users[i].failed_login_attempts]_vars

\* two failed attempts loaded the same row, both were committed, and the
\* count is 1, not 2, above the count they loaded
C17_Witness ==
  \E v, w \in Workers :
    /\ v # w
    /\ ReturnedFailure(v) /\ ReturnedFailure(w)
    /\ calls[v].id = calls[w].id
    /\ calls[v].seen = calls[w].seen
    /\ users[calls[v].id].failed_login_attempts =
         calls[v].seen[1].failed_login_attempts + 1

\* the failures of change_password for identity i: a current password that
\* does not verify is refused "Current password is incorrect", a new
\* password that violates the policy is refused with a weak-password message,
\* and both leave every row as it was
ChangeRefusals(i, current, new) ==
  LET r == change_password(users, i, current, new, TRUE) IN
  /\ ~verify_password(current, users[i].hashed_password) =>
       /\ ~r.ok /\ ~r.raised
       /\ r.message = "Current password is incorrect"
       /\ r.users = users
  /\ (verify_password(current, users[i].hashed_password) /\ ~MeetsPolicy(new)) =>
       /\ ~r.ok /\ ~r.raised
       /\ r.message \in WeakPasswordMessages
       /\ r.users = users

ChangeSucceeds(i, current, new) ==
  verify_password(current, users[i].hashed_password) /\ MeetsPolicy(new)

\* C18 (as stated): change_password is refused as above; whenever it
\* succeeds, a login with the new password succeeds afterwards and a login
\* with the old password fails.
C18_NewWorksOldFails ==
  \A i \in Ids : \A current \in Passwords : \A new \in NewPasswords :
    users[i].is_active =>
      /\ ChangeRefusals(i, current, new)
      /\ ChangeSucceeds(i, current, new) =>
           LET r == change_password(users, i, current, new, TRUE) IN
           /\ r.ok
           /\ Attempt(r.users, now, users[i].email, new).status = 200
           /\ Attempt(r.users, now, users[i].email, current).status = 401

\* C18 (amended): change_password is refused as above; when it succeeds it
\* replaces hashed_password by the hash of the new password and changes
\* nothing else, so that afterwards, unless the identity is locked, a login
\* with the new password succeeds and a login with the old password, if the
\* new one differs from it, is answered InvalidCredentials; a locked identity
\* stays locked for both.
C18_HashReplaced ==
  \A i \in Ids : \A current \in Passwords : \A new \in NewPasswords :
    users[i].is_active =>
      /\ ChangeRefusals(i, current, new)
      /\ ChangeSucceeds(i, current, new) =>
           LET r == change_password(users, i, current, new, TRUE) IN
           /\ r.ok /\ ~r.raised
           /\ r.users = [users EXCEPT ![i].hashed_password = get_password_hash(new)]
           /\ IF IsLocked(users[i], now)
                THEN /\ IsAccountLocked(Attempt(r.users, now, users[i].email, new))
                     /\ IsAccountLocked(Attempt(r.users, now, users[i].email, current))
                ELSE /\ Attempt(r.users, now, users[i].email, new).status = 200
                     /\ new # current =>
                          IsInvalidCredentials(
                            Attempt(r.users, now, users[i].email, current))

\* a password change succeeded for an identity that is not locked, and a
\* login with the new password would succeed
C18_Witness ==
  \E i \in Ids :
    /\ resp = Response("change-password", 200, "Password changed successfully", None)
    /\ users[i].is_active /\ ~IsLocked(users[i], now)
    /\ users[i].hashed_password = get_password_hash(PwOther)
    /\ users[i].last_login = None

\* C19: in every store state, when the commit of a mutating operation raises,
\* the rows afterwards are the rows before it: register returns
\* "Registration failed. Please try again." with users, profiles and goals
\* as they were; authenticate, on its wrong-password and on its success path,
\* and change_password raise (the route answers 500) with no counter, lock,
\* last_login or hash changed.
C19_FailedCommitLeavesStore ==
  /\ \A e \in Emails : \A p \in NewPasswords :
       LET r == register_user(users, profiles, goals, e, p, FALSE) IN
       /\ r.users = users /\ r.profiles = profiles /\ r.goals = goals
       /\ r.user = None /\ r.error # None
       /\ (QueryByEmail(users, e) = None /\ MeetsPolicy(p)) =>
            r.error = Some("Registration failed. Please try again.")
  /\ \A e \in Emails : \A p \in Passwords :
       LET r == authenticate_user(users, now, e, p, FALSE)
           found == QueryByEmail(users, e)
       IN /\ r.users = users
          /\ r.raised <=> /\ found # None
                           /\ ~IsLocked(users[found[1]], now)
                           /\ users[found[1]].is_active
          /\ r.raised => LoginResponse(r, now) = InternalError("login")
  /\ \A i \in Ids : \A current \in Passwords : \A new \in NewPasswords :
       LET r == change_password(users, i, current, new, FALSE) IN
       /\ r.users = users
       /\ ~r.ok
       /\ r.raised <=> ChangeSucceeds(i, current, new)

\* the commit of a login of an identity with counted failures raised
C19_Witness ==
  \E i \in Ids :
    /\ resp = InternalError("login")
    /\ users[i].failed_login_attempts > 0
    /\ users[i].is_active /\ ~IsLocked(users[i], now)

\* a refresh token signed with a key that is not the server's
ForgedRefresh ==
  Encode([sub |-> ToStr(1), exp |-> 2 * Days(REFRESH_TOKEN_EXPIRE_DAYS),
          type |-> "refresh", iat |-> 0], "attacker-key")

\* the reasons for which a token fails where a token of type token_type is
\* required at time t
TokenFailures(tok, token_type, t) ==
  (IF tok.payload = None THEN {"malformed"} ELSE {})
    \cup (IF tok.payload # None /\ tok.sig # Sign(tok.payload[1], SECRET_KEY)
            THEN {"signature"} ELSE {})
    \cup (IF tok.payload # None /\ tok.payload[1].exp < t THEN {"expired"} ELSE {})
    \cup (IF tok.payload # None /\ tok.payload[1].type # token_type
            THEN {"type"} ELSE {})

\* C20: at every clock reading, a token that fails for any reason (malformed,
\* bad signature, expired, wrong type) is answered on the request
\* authentication path with 401 "Could not validate credentials" and on the
\* refresh path with 401 "Invalid refresh token", with no body; on each path
\* the response is the same for every reason.
C20_OneTokenError ==
  \A tok \in Presentable \cup {ForgedRefresh} : \A t \in TimePoints \cup {now} :
    /\ TokenFailures(tok, "access", t) # {} =>
         /\ get_current_user(users, t, tok) =
              [status |-> 401, detail |-> "Could not validate credentials",
               user |-> None]
         /\ get_optional_user(users, t, tok) = None
    /\ TokenFailures(tok, "refresh", t) # {} =>
         RefreshResponse(refresh_access_token(users, t, tok)) =
           Response("refresh", 401, "Invalid refresh token", None)

\* a request was refused 401 at a moment at which the client holds both an
\* expired access token and a refresh token that is still good
C20_Witness ==
  \E pair \in held :
    /\ TokenFailures(pair.access_token, "access", now) = {"expired"}
    /\ TokenFailures(pair.refresh_token, "access", now) = {"type"}
    /\ users[ToInt(pair.access_token.payload[1].sub)].is_active
    /\ resp = Response("me", 401, "Could not validate credentials", None)

\* a step that answers a logout request
LogoutStep ==
  /\ resp' # resp
  /\ resp'.op = "logout"

\* C21: a logout, accepted or refused, changes no row of the store and takes
\* no token from the client: every token the client can present is answered
\* after it as before it, on the request authentication path and on the
\* refresh path, at every clock reading; after an accepted logout the access
\* token it was made with is still accepted, and every kept refresh token of
\* an active identity is accepted until its own expiry.
C21_LogoutChangesNothing ==
  [][LogoutStep =>
       /\ users' = users /\ profiles' = profiles /\ goals' = goals
       /\ held' = held /\ now' = now
       /\ \A tok \in Presentable : \A t \in TimePoints \cup {now} :
            /\ get_current_user(users', t, tok) = get_current_user(users, t, tok)
            /\ refresh_access_token(users', t, tok) = refresh_access_token(users, t, tok)
       /\ resp'.status = 200 =>
            /\ \E tok \in Presentable : get_current_user(users', now', tok).status = 200
            /\ \A pair \in held' :
                 LET id == ToInt(pair.refresh_token.payload[1].sub) IN
                 users[id].is_active
                   => AcceptedUntilExpiry(users', now', pair.refresh_token)]_vars

\* after an accepted logout the kept pair is still good on both paths
C21_Witness ==
  \E pair \in held :
    /\ resp = Response("logout", 200, "Logged out successfully", None)
    /\ get_current_user(users, now, pair.access_token).status = 200
    /\ refresh_access_token(users, now, pair.refresh_token) # None

IsAccountInactive(r) ==
  /\ r.status = 401
  /\ r.detail = "Account is deactivated"

\* C22: in every store state a login is answered by the first of four checks
\* that fails, in the order lookup, lock, active, password: an unknown email
\* gets InvalidCredentials; an identity with locked_until > now gets
\* AccountLocked, inactive or not, whatever the password; an unlocked
\* inactive identity gets AccountInactive whatever the password; an unlocked
\* active identity gets InvalidCredentials for a wrong password and a token
\* pair for the right one.  AccountLocked is answered only for an identity
\* with locked_until > now.
C22_CheckOrder ==
  /\ \A e \in Unregistered : \A p \in Passwords :
       IsInvalidCredentials(Attempt(users, now, e, p))
  /\ \A i \in Ids : \A p \in Passwords :
       LET out == Attempt(users, now, users[i].email, p)
           locked == users[i].locked_until # None /\ users[i].locked_until[1] > now
       IN /\ IsAccountLocked(out) <=> locked
          /\ (~locked /\ ~users[i].is_active) => IsAccountInactive(out)
          /\ (~locked /\ users[i].is_active) =>
               IF p \in WrongPasswords(i) THEN IsInvalidCredentials(out)
               ELSE out.status = 200

\* a login of an identity that is both locked and inactive was answered
\* AccountLocked
C22_Witness ==
  \E i \in Ids :
    /\ IsLocked(users[i], now)
    /\ ~users[i].is_active
    /\ resp.op = "login"
    /\ IsAccountLocked(resp)

\* a step that answers a login with a token pair
LoginSuccessStep ==
  /\ resp' # resp
  /\ resp'.op = "login"
  /\ resp'.status = 200

\* C23: a step that answers a login with a token pair leaves the identity
\* that logged in with failed_login_attempts = 0, locked_until = None and
\* last_login = the time of the step, and its other fields and every other
\* row as they were; and a step that changes the last_login of an identity is
\* such a successful login of that identity: no failed login and no other
\* operation writes it.
C23_SuccessResetsAndStamps ==
  [][/\ LoginSuccessStep =>
          LET i == ToInt(resp'.body[1].access_token.payload[1].sub) IN
          /\ i \in Ids
          /\ users' = [users EXCEPT ![i].failed_login_attempts = 0,
                                    ![i].locked_until = None,
                                    ![i].last_login = Some(now)]
     /\ \A i \in Ids :
          users'[i].last_login # users[i].last_login =>
            /\ LoginSuccessStep
            /\ resp'.body[1].access_token.payload[1].sub = ToStr(i)
            /\ users'[i].last_login = Some(now)]_vars

\* a login succeeded after a lock had lapsed: the count and the stored lock
\* were cleared and the login stamped
C23_Witness ==
  \E i \in Ids :
    /\ resp.op = "login" /\ resp.status = 200
    /\ resp.body[1].access_token.payload[1].iat = now
    /\ now >= 15
    /\ users[i].last_login = Some(now)
    /\ users[i].failed_login_attempts = 0
    /\ users[i].locked_until = None

\* C24: a step that changes the locked_until of an identity to a value other
\* than None writes the time of the step plus 15 minutes, which is later
\* than the clock reading of the step and of the state it leads to; the step
\* is the commit of a failed login that brings the count to 5 or more.
C24_LockStrictlyFuture ==
  [][\A i \in Ids :
       (users'[i].locked_until # users[i].locked_until
          /\ users'[i].locked_until # None) =>
         /\ users'[i].locked_until = Some(now + 15)
         /\ users'[i].locked_until[1] > now
         /\ users'[i].locked_until[1] > now'
         /\ FailureStep(i)
         /\ users'[i].failed_login_attempts >= 5]_vars

\* an identity was locked again after its first lock had lapsed
C24_Witness ==
  \E i \in Ids :
    /\ now >= 15
    /\ users[i].locked_until = Some(now + 15)
    /\ users[i].failed_login_attempts = 6

\* a step that answers a request which only verifies a token: /me, /logout,
\* /refresh, or a password change refused by the request authenticator
ReadOnlyStep ==
  /\ resp' # resp
  /\ \/ resp'.op \in {"me", "logout", "refresh"}
     \/ resp'.op = "change-password" /\ resp'.status \in {401, 403}

\* C25: a step that verifies a token, authenticates a request or refreshes
\* changes no field of any identity and no profile or goals record, so every
\* login gets after it the outcome it would have got before it, with the same
\* rows written; verify_token itself takes no store at all.
C25_VerificationReadOnly ==
  [][ReadOnlyStep =>
       /\ users' = users /\ profiles' = profiles /\ goals' = goals
       /\ now' = now
       /\ \A e \in Emails : \A p \in Passwords :
            authenticate_user(users', now', e, p, TRUE) =
              authenticate_user(users, now, e, p, TRUE)]_vars

\* a refresh succeeded between the failed logins of an identity, whose count
\* stands as the logins left it
C25_Witness ==
  \E i \in Ids :
    /\ users[i].failed_login_attempts \in 1..4
    /\ users[i].last_login = None
    /\ resp.op = "refresh"
    /\ resp.status = 200

\* worker w is inside a call: past its query and before its commit
InCall(w) == calls[w].pc \in {"insert", "commit"}

\* C26 (as stated): every register and authenticate call that was started
\* returns, with its result or with an error, also when the store stops
\* answering.
C26_EveryCallReturns ==
  \A w \in Workers : InCall(w) ~> (calls[w].pc = "done")

\* C27: in every store state, a login of an identity with locked_until > now,
\* with a wrong or the right password, is answered AccountLocked without a
\* commit and leaves every row as it was: failed_login_attempts, locked_until
\* and last_login keep their values, so the lock still ends when it was to
\* end.
C27_LockedAttemptChangesNothing ==
  \A i \in Ids :
    IsLocked(users[i], now) =>
      \A p \in Passwords : \A commitOk \in BOOLEAN :
        LET r == authenticate_user(users, now, users[i].email, p, commitOk) IN
        /\ r.users = users
        /\ ~r.raised
        /\ r.user = None
        /\ IsAccountLocked(LoginResponse(r, now))
        /\ r.users[i].failed_login_attempts = users[i].failed_login_attempts
        /\ r.users[i].locked_until = users[i].locked_until
        /\ r.users[i].last_login = users[i].last_login

\* a login was refused during the lock, late in it, and the count and the
\* end of the lock are those the locking attempt set
C27_Witness ==
  \E i \in Ids :
    /\ users[i].failed_login_attempts = 5
    /\ users[i].locked_until = Some(15)
    /\ now = 14
    /\ resp.op = "login"
    /\ IsAccountLocked(resp)

\* the lock of identity i has lapsed and no login has succeeded since
Lapsed(i) ==
  /\ users[i].locked_until # None
  /\ users[i].locked_until[1] <= now

\* C28: an active identity whose lock has lapsed, no login having succeeded
\* since, still has failed_login_attempts >= 5; a wrong password is then
\* answered InvalidCredentials, raises the count by 1 and sets locked_until
\* to now + 15 minutes at once, so that the next login is answered
\* AccountLocked; a right password succeeds and sets the count to 0, after
\* which four wrong passwords leave the identity unlocked and the fifth
\* locks it.
C28_RelockAfterLapse ==
  \A i \in Ids :
    (Lapsed(i) /\ users[i].is_active) =>
      /\ users[i].failed_login_attempts >= 5
      /\ \A p \in WrongPasswords(i) :
           LET r == authenticate_user(users, now, users[i].email, p, TRUE) IN
           /\ IsInvalidCredentials(LoginResponse(r, now))
           /\ r.users[i].failed_login_attempts = users[i].failed_login_attempts + 1
           /\ r.users[i].locked_until = Some(now + 15)
           /\ \A q \in Passwords :
                IsAccountLocked(Attempt(r.users, now, users[i].email, q))
      /\ \A p \in RightPasswords(i) :
           LET r == authenticate_user(users, now, users[i].email, p, TRUE) IN
           /\ LoginResponse(r, now).status = 200
           /\ r.users[i].failed_login_attempts = 0
           /\ r.users[i].locked_until = None
           /\ ~IsLocked(AfterFailures(r.users, now, i, 4)[i], now)
           /\ AfterFailures(r.users, now, i, 4)[i].locked_until = None
           /\ AfterFailures(r.users, now, i, 5)[i].locked_until = Some(now + 15)

\* the first wrong password after the lapse of the first lock was answered
\* InvalidCredentials and locked the identity again
C28_Witness ==
  \E i \in Ids :
    /\ users[i].failed_login_attempts = 6
    /\ users[i].locked_until = Some(now + 15)
    /\ users[i].last_login = None
    /\ now \in {15, 30}
    /\ resp.op = "login"
    /\ IsInvalidCredentials(resp)

\* C29: in every reachable store state of the sequential program an identity
\* with a non-null locked_until has failed_login_attempts >= 5, an identity
\* with failed_login_attempts < 5 has locked_until = None, and
\* failed_login_attempts is a natural number.
C29_LockImpliesFiveFailures ==
  \A i \in Ids :
    /\ users[i].locked_until # None => users[i].failed_login_attempts >= 5
    /\ users[i].failed_login_attempts < 5 => users[i].locked_until = None
    /\ users[i].failed_login_attempts \in Nat
    /\ users[i].failed_login_attempts >= 0

\* the fifth failure has set the lock, and long after its lapse the store
\* still holds both the lock time and the count of 5
C29_Witness ==
  \E i \in Ids :
    /\ users[i].failed_login_attempts = 5
    /\ users[i].locked_until # None
    /\ now >= users[i].locked_until[1] + 10000

\* the rows after n calls of change_password for identity i with the same
\* current and new password
RECURSIVE AfterChanges(_, _, _, _, _)
AfterChanges(us, i, current, new, n) ==
  IF n = 0 THEN us
  ELSE AfterChanges(change_password(us, i, current, new, TRUE).users,
                    i, current, new, n - 1)

\* the lockout state of a row
LockoutState(u) ==
  <<u.failed_login_attempts, u.locked_until, u.last_login>>

\* C30: in every store state, a call of change_password, with a wrong or a
\* right current password, a weak or a strong new one, a commit that
\* succeeds or raises, leaves failed_login_attempts, locked_until and
\* last_login of every identity as they were; six calls with a wrong current
\* password leave the rows as they were, so they lock nothing; and after a
\* successful change every kept access token and refresh token is answered
\* by the request authenticator and by refresh as it was before.
C30_ChangePasswordLeavesLockout ==
  \A i \in Ids : \A current \in Passwords : \A new \in NewPasswords :
    /\ \A commitOk \in BOOLEAN :
         LET r == change_password(users, i, current, new, commitOk) IN
         /\ DOMAIN r.users = DOMAIN users
         /\ \A j \in Ids : LockoutState(r.users[j]) = LockoutState(users[j])
    /\ current \in WrongPasswords(i) =>
         /\ AfterChanges(users, i, current, new, 6) = users
         /\ IsLocked(AfterChanges(users, i, current, new, 6)[i], now)
              = IsLocked(users[i], now)
    /\ ChangeSucceeds(i, current, new) =>
         LET r == change_password(users, i, current, new, TRUE) IN
         /\ r.ok
         /\ \A pair \in held :
              /\ get_current_user(r.users, now, pair.access_token)
                   = get_current_user(users, now, pair.access_token)
              /\ refresh_access_token(r.users, now, pair.refresh_token)
                   = refresh_access_token(users, now, pair.refresh_token)

\* a wrong current password was refused for an identity that has no failure
\* counted and no lock, while the client keeps a token the request
\* authenticator accepts
C30_Witness ==
  \E i \in Ids : \E pair \in held :
    /\ resp = Response("change-password", 400, "Current password is incorrect", None)
    /\ users[i].failed_login_attempts = 0
    /\ users[i].locked_until = None
    /\ get_current_user(users, now, pair.access_token).user = Some(i)

====
